---- MODULE Spec2Model ----
(***************************************************************************)
(* Model of the beads orphan detector (migration 003) and of the `bd sync` *)
(* command.                                                                *)
(*                                                                         *)
(* Strings that the code takes apart (issue IDs) are sequences of          *)
(* one-character strings, so that INSTR / SUBSTRING / ORDER BY are         *)
(* computed character by character as the SQL engine computes them.        *)
(* Errors are chains of messages, outermost wrapper first; Nil (the empty  *)
(* chain) is Go's nil error.                                               *)
(***************************************************************************)
EXTENDS Integers, Sequences, FiniteSets, TLC

VARIABLES
    tables,     \* names of the tables of the database
    issues,     \* rows of the issues table: records [id, title, status]
    columns,    \* names of the columns of the issues table
    ret,        \* what the last database operation returned and logged
    store,      \* the global store handle of the sync command: "nil" or "open"
    beadsDir,   \* what beads.FindBeadsDir() returns to the running sync
    pc,         \* position of the running sync invocation
    calls,      \* store / export calls made by the running sync, in order
    stderr,     \* lines the running sync printed to standard error
    jsonl,      \* the running sync wrote the interchange file issues.jsonl
    exit,       \* how the last sync invocation ended: "none", "ok" or "error"
    runs        \* number of sync invocations started so far

dbvars == <<tables, issues, columns, ret>>
syncvars == <<store, beadsDir, pc, calls, stderr, jsonl, exit, runs>>
vars == <<tables, issues, columns, ret, store, beadsDir, pc, calls, stderr, jsonl, exit, runs>>

----------------------------------------------------------------------------
\* Bounds of the model.

\* Most rows the issues table holds.
MaxRows == 3

\* Most sync invocations in one behaviour.
MaxSyncRuns == 2

----------------------------------------------------------------------------
\* Values.

Nil == <<>>

\* fmt.Errorf("<msg>: %w", err)
Wrap(msg, err) == <<msg>> \o err

\* The error of the driver when the connection or the catalog fails.
ConnErr == <<"driver: bad connection">>

\* The error of the engine when a statement names a table that is absent.
NoTableErr == <<"table not found: issues">>

\* Issue IDs the model inserts: roots, children, grandchildren, and the
\* degenerate strings a VARCHAR primary key also admits.
IdSet ==
    { <<>>,
      <<"a">>, <<"b">>, <<"a", "b">>,
      <<".", "1">>, <<"a", ".">>,
      <<"a", ".", "1">>, <<"a", ".", "2">>, <<"b", ".", "1">>,
      <<"a", "b", ".", "1">>,
      <<"a", ".", "1", ".", "1">>, <<"a", ".", "1", ".", "2">> }

Titles == {"t1", "t2"}
Statuses == {"open", "closed"}

\* Title and status of the rows the model inserts.
RowVals == { <<"t1", "open">>, <<"t2", "closed">> }

\* Which database call of an operation fails, if the operation reaches it.
Faults == {"none", "catalog", "exec", "scan", "iter"}

\* The same for the column migration: its probe or its ALTER TABLE.
MigrateFaults == {"none", "catalog", "exec"}

\* The columns CREATE TABLE gives the issues table.
BaseColumns == {"id", "title", "status", "ephemeral", "pinned"}

\* The error of the engine when ADD COLUMN names a column that exists.
DupColumnErr == <<"duplicate column: wisp_type">>

----------------------------------------------------------------------------
\* The SQL of the orphan query, function by function.

\* Code point of a character (the column's binary collation compares these).
CharCode(c) ==
    CASE c = "." -> 46
      [] c = "1" -> 49
      [] c = "2" -> 50
      [] c = "a" -> 97
      [] c = "b" -> 98

\* Mutant of INSTR: the position of the last occurrence.
INSTR_Last(str, ch) ==
    IF \E i \in 1..Len(str) : str[i] = ch
    THEN CHOOSE i \in 1..Len(str) :
             str[i] = ch /\ \A j \in (i + 1)..Len(str) : str[j] # ch
    ELSE 0

\* INSTR(str, ch): 1-based position of the first occurrence of ch, 0 if none.
INSTR(str, ch) ==
    IF \E i \in 1..Len(str) : str[i] = ch
    THEN CHOOSE i \in 1..Len(str) :
             str[i] = ch /\ \A j \in 1..(i - 1) : str[j] # ch
    ELSE 0

\* Mutant of SUBSTRING: one character too many.
SUBSTRING_OneMore(str, pos, len) ==
    IF len < 0 THEN <<>>
    ELSE SubSeq(str, pos, IF pos + len > Len(str) THEN Len(str) ELSE pos + len)

\* SUBSTRING(str, pos, len): len characters from position pos; '' if len < 1.
SUBSTRING(str, pos, len) ==
    IF len < 1 THEN <<>>
    ELSE SubSeq(str, pos, IF pos + len - 1 > Len(str) THEN Len(str) ELSE pos + len - 1)

\* a < b in the ORDER BY of a binary-collated string column.
RECURSIVE StrLess(_, _)
StrLess(a, b) ==
    IF Len(b) = 0 THEN FALSE
    ELSE IF Len(a) = 0 THEN TRUE
    ELSE IF CharCode(Head(a)) # CharCode(Head(b))
         THEN CharCode(Head(a)) < CharCode(Head(b))
         ELSE StrLess(Tail(a), Tail(b))

\* SELECT id FROM issues
SelectIds(rows) == { r.id : r \in rows }

\* Mutant of OrphanWhere: the test for a separator is dropped.
OrphanWhere_NoDotTest(r, rows) ==
    SUBSTRING(r.id, 1, INSTR(r.id, ".") - 1) \notin SelectIds(rows)

\* WHERE INSTR(id, '.') > 0
\*   AND SUBSTRING(id, 1, INSTR(id, '.') - 1) NOT IN (SELECT id FROM issues)
OrphanWhere(r, rows) ==
    /\ INSTR(r.id, ".") > 0
    /\ SUBSTRING(r.id, 1, INSTR(r.id, ".") - 1) \notin SelectIds(rows)

\* Mutant of OrderById: descending order.
RECURSIVE OrderById_Desc(_)
OrderById_Desc(rows) ==
    IF rows = {} THEN <<>>
    ELSE LET first == CHOOSE r \in rows :
                          \A q \in rows \ {r} : StrLess(q.id, r.id)
         IN  <<first>> \o OrderById_Desc(rows \ {first})

\* ORDER BY id
RECURSIVE OrderById(_)
OrderById(rows) ==
    IF rows = {} THEN <<>>
    ELSE LET first == CHOOSE r \in rows :
                          \A q \in rows \ {r} : StrLess(r.id, q.id)
         IN  <<first>> \o OrderById(rows \ {first})

\* Mutant of OrphanSelect: the parent is the ID without its last ".suffix".
OrphanSelect_ImmediateParent(rows) ==
    OrderById({ r \in rows :
                  /\ INSTR(r.id, ".") > 0
                  /\ SUBSTRING(r.id, 1, INSTR_Last(r.id, ".") - 1)
                         \notin SelectIds(rows) })

\* SELECT id, title, status FROM issues WHERE ... ORDER BY id
OrphanSelect(rows) ==
    OrderById({ r \in rows : OrphanWhere(r, rows) })

----------------------------------------------------------------------------
\* The migrations package.

\* columnExists(db, table, column): false, not an error, when the table or
\* the column is absent.
columnExists(tbls, cols, table, column, fault) ==
    IF fault = "catalog"
    THEN [exists |-> FALSE, err |-> ConnErr]
    ELSE [exists |-> table \in tbls /\ column \in cols, err |-> Nil]

\* tableExists(db, name): the catalog probe of the schema introspector.
tableExists(tbls, name, fault) ==
    IF fault = "catalog"
    THEN [exists |-> FALSE, err |-> ConnErr]
    ELSE [exists |-> name \in tbls, err |-> Nil]

\* QueryOrphanedChildren(db): the orphans in query order, or an error.
QueryOrphanedChildren(tbls, rows, fault) ==
    IF "issues" \notin tbls
    THEN [orphans |-> <<>>, err |-> Wrap("orphan query failed", NoTableErr)]
    ELSE IF fault = "exec"
    THEN [orphans |-> <<>>, err |-> Wrap("orphan query failed", ConnErr)]
    ELSE LET sel == OrphanSelect(rows) IN
         IF fault = "scan" /\ Len(sel) > 0
         THEN [orphans |-> <<>>, err |-> Wrap("failed to scan orphan row", ConnErr)]
         ELSE IF fault = "iter"
         THEN [orphans |-> <<>>, err |-> Wrap("orphan query iteration failed", ConnErr)]
         ELSE [orphans |-> sel, err |-> Nil]

\* The lines DetectOrphanedChildren logs for a non-empty list of orphans.
OrphanReport(orphans) ==
    <<[kind |-> "found", n |-> Len(orphans)]>>
    \o [i \in 1..Len(orphans) |-> [kind |-> "orphan", row |-> orphans[i]]]
    \o <<[kind |-> "hint"]>>

\* Mutant of DetectOrphanedChildren: finding orphans is an error.
DetectOrphanedChildren_ErrOnOrphans(tbls, rows, fault) ==
    LET te == tableExists(tbls, "issues", fault) IN
    IF te.err # Nil
    THEN [err |-> Wrap("failed to check issues table", te.err),
          orphans |-> <<>>, log |-> <<>>, queried |-> FALSE]
    ELSE IF ~te.exists
    THEN [err |-> Nil, orphans |-> <<>>, log |-> <<>>, queried |-> FALSE]
    ELSE LET q == QueryOrphanedChildren(tbls, rows, fault) IN
         IF q.err # Nil
         THEN [err |-> Wrap("failed to detect orphaned children", q.err),
               orphans |-> <<>>, log |-> <<>>, queried |-> TRUE]
         ELSE IF Len(q.orphans) = 0
         THEN [err |-> Nil, orphans |-> q.orphans, log |-> <<>>, queried |-> TRUE]
         ELSE [err |-> <<"orphaned children found">>, orphans |-> q.orphans,
               log |-> OrphanReport(q.orphans), queried |-> TRUE]

\* Mutant of DetectOrphanedChildren: the table-existence check is skipped.
DetectOrphanedChildren_NoTableCheck(tbls, rows, fault) ==
    LET q == QueryOrphanedChildren(tbls, rows, fault) IN
    IF q.err # Nil
    THEN [err |-> Wrap("failed to detect orphaned children", q.err),
          orphans |-> <<>>, log |-> <<>>, queried |-> TRUE]
    ELSE IF Len(q.orphans) = 0
    THEN [err |-> Nil, orphans |-> q.orphans, log |-> <<>>, queried |-> TRUE]
    ELSE [err |-> Nil, orphans |-> q.orphans,
          log |-> OrphanReport(q.orphans), queried |-> TRUE]

\* Mutant of DetectOrphanedChildren: a failed table check counts as "absent".
DetectOrphanedChildren_IgnoreCheckErr(tbls, rows, fault) ==
    LET te == tableExists(tbls, "issues", fault) IN
    IF te.err # Nil \/ ~te.exists
    THEN [err |-> Nil, orphans |-> <<>>, log |-> <<>>, queried |-> FALSE]
    ELSE LET q == QueryOrphanedChildren(tbls, rows, fault) IN
         IF q.err # Nil
         THEN [err |-> Wrap("failed to detect orphaned children", q.err),
               orphans |-> <<>>, log |-> <<>>, queried |-> TRUE]
         ELSE IF Len(q.orphans) = 0
         THEN [err |-> Nil, orphans |-> q.orphans, log |-> <<>>, queried |-> TRUE]
         ELSE [err |-> Nil, orphans |-> q.orphans,
               log |-> OrphanReport(q.orphans), queried |-> TRUE]

\* DetectOrphanedChildren(db): the error it returns, the lines it logs, the
\* orphans it found, and whether it ran the orphan query.
DetectOrphanedChildren(tbls, rows, fault) ==
    LET te == tableExists(tbls, "issues", fault) IN
    IF te.err # Nil
    THEN [err |-> Wrap("failed to check issues table", te.err),
          orphans |-> <<>>, log |-> <<>>, queried |-> FALSE]
    ELSE IF ~te.exists
    THEN [err |-> Nil, orphans |-> <<>>, log |-> <<>>, queried |-> FALSE]
    ELSE LET q == QueryOrphanedChildren(tbls, rows, fault) IN
         IF q.err # Nil
         THEN [err |-> Wrap("failed to detect orphaned children", q.err),
               orphans |-> <<>>, log |-> <<>>, queried |-> TRUE]
         ELSE IF Len(q.orphans) = 0
         THEN [err |-> Nil, orphans |-> q.orphans, log |-> <<>>, queried |-> TRUE]
         ELSE [err |-> Nil, orphans |-> q.orphans,
               log |-> OrphanReport(q.orphans), queried |-> TRUE]

\* Nothing returned yet, or the last operation was a write.
NoRet ==
    [op |-> "none", err |-> Nil, orphans |-> <<>>, log |-> <<>>,
     queried |-> FALSE, fault |-> "none", again |-> FALSE,
     ddl |-> FALSE, afterDelete |-> FALSE]

----------------------------------------------------------------------------
\* Database operations.

\* CREATE TABLE IF NOT EXISTS issues (...)
CreateIssuesTable ==
    /\ tables' = tables \cup {"issues"}
    /\ columns' = IF "issues" \in tables THEN columns ELSE BaseColumns
    /\ issues' = issues
    /\ ret' = NoRet
    /\ UNCHANGED syncvars

\* INSERT INTO issues (id, title, status) VALUES (...): the primary key
\* rejects a second row with the same id, and the table must exist.
InsertIssue ==
    /\ "issues" \in tables
    /\ Cardinality(issues) < MaxRows
    /\ \E id \in IdSet \ SelectIds(issues), v \in RowVals :
           issues' = issues \cup {[id |-> id, title |-> v[1], status |-> v[2]]}
    /\ ret' = NoRet
    /\ UNCHANGED <<tables, columns, syncvars>>

\* DELETE FROM issues WHERE id = ...: one row is removed, whatever rows
\* encode it as their parent.
DeleteIssue ==
    /\ "issues" \in tables
    /\ \E r \in issues : issues' = issues \ {r}
    /\ ret' = [NoRet EXCEPT !.op = "Delete"]
    /\ UNCHANGED <<tables, columns, syncvars>>

\* A call of QueryOrphanedChildren(db). ret keeps what it returned, the fault
\* the database was in, and whether the call before it was the same read.
CallQueryOrphanedChildren ==
    /\ \E fault \in Faults \ {"catalog"} :
           LET q == QueryOrphanedChildren(tables, issues, fault) IN
           ret' = [op |-> "Query", err |-> q.err, orphans |-> q.orphans,
                   log |-> <<>>, queried |-> TRUE, fault |-> fault,
                   again |-> (ret.op = "Query"), ddl |-> FALSE,
                   afterDelete |-> (ret.op = "Delete")]
    /\ UNCHANGED <<tables, issues, columns, syncvars>>

\* Mutant of CallDetectOrphanedChildren: the orphans found are deleted.
CallDetectOrphanedChildren_Repair ==
    /\ \E fault \in Faults :
           LET d == DetectOrphanedChildren(tables, issues, fault) IN
           /\ ret' = [op |-> "Detect", err |-> d.err, orphans |-> d.orphans,
                      log |-> d.log, queried |-> d.queried, fault |-> fault,
                      again |-> (ret.op = "Detect"), ddl |-> FALSE,
                      afterDelete |-> (ret.op = "Delete")]
           /\ issues' = { r \in issues :
                            \A i \in 1..Len(d.orphans) : d.orphans[i] # r }
    /\ UNCHANGED <<tables, columns, syncvars>>

\* A call of DetectOrphanedChildren(db).
CallDetectOrphanedChildren ==
    /\ \E fault \in Faults :
           LET d == DetectOrphanedChildren(tables, issues, fault) IN
           ret' = [op |-> "Detect", err |-> d.err, orphans |-> d.orphans,
                   log |-> d.log, queried |-> d.queried, fault |-> fault,
                   again |-> (ret.op = "Detect"), ddl |-> FALSE,
                   afterDelete |-> (ret.op = "Delete")]
    /\ UNCHANGED <<tables, issues, columns, syncvars>>

\* Mutant of MigrateWispTypeColumn: the column is added without looking
\* whether it is there.
MigrateWispTypeColumn_NoCheck(tbls, cols, fault) ==
    IF fault = "exec"
    THEN [err |-> Wrap("failed to add wisp_type column", ConnErr),
          columns |-> cols, ddl |-> TRUE]
    ELSE IF "issues" \notin tbls
    THEN [err |-> Wrap("failed to add wisp_type column", NoTableErr),
          columns |-> cols, ddl |-> TRUE]
    ELSE IF "wisp_type" \in cols
    THEN [err |-> Wrap("failed to add wisp_type column", DupColumnErr),
          columns |-> cols, ddl |-> TRUE]
    ELSE [err |-> Nil, columns |-> cols \cup {"wisp_type"}, ddl |-> TRUE]

\* MigrateWispTypeColumn(db): probes for the column; issues ALTER TABLE
\* issues ADD COLUMN when the probe says it is absent, which it also says
\* when the table is absent; the engine then rejects the statement, as it
\* rejects the orphan query on an absent table. Returns the error, the
\* columns afterwards and whether DDL was issued.
MigrateWispTypeColumn(tbls, cols, fault) ==
    LET ce == columnExists(tbls, cols, "issues", "wisp_type", fault) IN
    IF ce.err # Nil
    THEN [err |-> Wrap("failed to check wisp_type column", ce.err),
          columns |-> cols, ddl |-> FALSE]
    ELSE IF ce.exists
    THEN [err |-> Nil, columns |-> cols, ddl |-> FALSE]
    ELSE IF fault = "exec"
    THEN [err |-> Wrap("failed to add wisp_type column", ConnErr),
          columns |-> cols, ddl |-> TRUE]
    ELSE IF "issues" \notin tbls
    THEN [err |-> Wrap("failed to add wisp_type column", NoTableErr),
          columns |-> cols, ddl |-> TRUE]
    ELSE [err |-> Nil, columns |-> cols \cup {"wisp_type"}, ddl |-> TRUE]

\* A call of MigrateWispTypeColumn(db), on any database.
CallMigrateWispTypeColumn ==
    /\ \E fault \in MigrateFaults :
           LET m == MigrateWispTypeColumn(tables, columns, fault) IN
           /\ columns' = m.columns
           /\ ret' = [op |-> "Migrate", err |-> m.err, orphans |-> <<>>,
                      log |-> <<>>, queried |-> FALSE, fault |-> fault,
                      again |-> (ret.op = "Migrate"), ddl |-> m.ddl,
                      afterDelete |-> FALSE]
    /\ UNCHANGED <<tables, issues, syncvars>>

----------------------------------------------------------------------------
\* The sync command (syncCmd.Run), one action per step.

\* config.SyncModeDoltNative, and a mode that keeps the JSONL mirror.
SyncModeDoltNative == "dolt-native"
SyncModes == {SyncModeDoltNative, "git-portable"}

\* The error of store.Commit when there are no pending changes.
NothingToCommitErr == <<"nothing to commit">>

\* isDoltNothingToCommit(err)
isDoltNothingToCommit(err) == err = NothingToCommitErr

\* What store.Commit, exportToJSONLWithStore and store.Push can return.
CommitErrs == {Nil, NothingToCommitErr, ConnErr}
StepErrs == {Nil, ConnErr}

\* What store.HasRemote(ctx, "origin") can return: (hasRemote, err).
HasRemoteResults ==
    { [has |-> h, err |-> e] : h \in BOOLEAN, e \in StepErrs }

\* A call recorded in `calls`, and a line of standard error.
Call(op, val, err) == [op |-> op, val |-> val, err |-> err]
Warning(what, err) == [level |-> "Warning", what |-> what, err |-> err]
PushedLine == [level |-> "Info", what |-> "Pushed to Dolt git remote", err |-> Nil]

\* Mutant of SyncStart: the store handle is not checked.
SyncStart_NoStoreCheck ==
    /\ pc \in {"idle", "done"}
    /\ runs < MaxSyncRuns
    /\ runs' = runs + 1
    /\ \E st \in {"nil", "open"}, dir \in {"", ".beads"} :
           /\ store' = st
           /\ beadsDir' = dir
           /\ IF dir = ""
              THEN pc' = "done" /\ exit' = "ok"
              ELSE pc' = "commit" /\ exit' = "none"
    /\ calls' = <<>>
    /\ stderr' = <<>>
    /\ jsonl' = FALSE
    /\ UNCHANGED dbvars

\* Mutant of SyncStart: the sequence starts at the mode branch.
SyncStart_SkipCommit ==
    /\ pc \in {"idle", "done"}
    /\ runs < MaxSyncRuns
    /\ runs' = runs + 1
    /\ \E st \in {"nil", "open"}, dir \in {"", ".beads"} :
           /\ store' = st
           /\ beadsDir' = IF st = "nil" THEN "unset" ELSE dir
           /\ IF st = "nil" \/ dir = ""
              THEN pc' = "done" /\ exit' = "ok"
              ELSE pc' = "mode" /\ exit' = "none"
    /\ calls' = <<>>
    /\ stderr' = <<>>
    /\ jsonl' = FALSE
    /\ UNCHANGED dbvars

\* Run is entered: the store handle PersistentPreRun left (nil or open) is
\* checked, then the beads directory is looked up; either check ends the
\* invocation.
SyncStart ==
    /\ pc \in {"idle", "done"}
    /\ runs < MaxSyncRuns
    /\ runs' = runs + 1
    /\ \E st \in {"nil", "open"}, dir \in {"", ".beads"} :
           /\ store' = st
           /\ beadsDir' = IF st = "nil" THEN "unset" ELSE dir
           /\ IF st = "nil" \/ dir = ""
              THEN pc' = "done" /\ exit' = "ok"
              ELSE pc' = "commit" /\ exit' = "none"
    /\ calls' = <<>>
    /\ stderr' = <<>>
    /\ jsonl' = FALSE
    /\ UNCHANGED dbvars

\* Mutant of CommitStep: a commit error other than "nothing to commit" ends
\* the invocation.
CommitStep_AbortOnError ==
    /\ pc = "commit"
    /\ \E err \in CommitErrs :
           /\ calls' = Append(calls, Call("Commit", "", err))
           /\ IF err # Nil /\ ~isDoltNothingToCommit(err)
              THEN /\ stderr' = Append(stderr, Warning("Dolt commit failed", err))
                   /\ pc' = "done"
                   /\ exit' = "ok"
              ELSE /\ stderr' = stderr
                   /\ pc' = "mode"
                   /\ exit' = exit
    /\ UNCHANGED <<store, beadsDir, jsonl, runs, dbvars>>

\* Mutant of CommitStep: every commit error is warned about.
CommitStep_WarnAlways ==
    /\ pc = "commit"
    /\ \E err \in CommitErrs :
           /\ calls' = Append(calls, Call("Commit", "", err))
           /\ stderr' = IF err # Nil
                        THEN Append(stderr, Warning("Dolt commit failed", err))
                        ELSE stderr
    /\ pc' = "mode"
    /\ UNCHANGED <<store, beadsDir, jsonl, exit, runs, dbvars>>

\* store.Commit(rootCtx, commitMsg) and the handling of its error.
CommitStep ==
    /\ pc = "commit"
    /\ \E err \in CommitErrs :
           /\ calls' = Append(calls, Call("Commit", "", err))
           /\ stderr' = IF err # Nil /\ ~isDoltNothingToCommit(err)
                        THEN Append(stderr, Warning("Dolt commit failed", err))
                        ELSE stderr
    /\ pc' = "mode"
    /\ UNCHANGED <<store, beadsDir, jsonl, exit, runs, dbvars>>

\* Mutant of ModeBranch: the export is made in every mode.
ModeBranch_AlwaysExport ==
    /\ pc = "mode"
    /\ \E mode \in SyncModes :
           /\ calls' = Append(calls, Call("GetSyncMode", mode, Nil))
           /\ pc' = "export"
    /\ UNCHANGED <<store, beadsDir, stderr, jsonl, exit, runs, dbvars>>

\* if config.GetSyncMode() == config.SyncModeDoltNative
ModeBranch ==
    /\ pc = "mode"
    /\ \E mode \in SyncModes :
           /\ calls' = Append(calls, Call("GetSyncMode", mode, Nil))
           /\ pc' = IF mode = SyncModeDoltNative THEN "nativeRemote" ELSE "export"
    /\ UNCHANGED <<store, beadsDir, stderr, jsonl, exit, runs, dbvars>>

\* Mutant of ExportStep: a failed export is tried again.
ExportStep_RetryOnError ==
    /\ pc = "export"
    /\ \E err \in StepErrs :
           /\ calls' = Append(calls, Call("Export", "issues.jsonl", err))
           /\ stderr' = IF err # Nil
                        THEN Append(stderr, Warning("export failed", err))
                        ELSE stderr
           /\ jsonl' = (jsonl \/ err = Nil)
           /\ pc' = IF err # Nil THEN "export" ELSE "mirrorRemote"
    /\ UNCHANGED <<store, beadsDir, exit, runs, dbvars>>

\* exportToJSONLWithStore(rootCtx, store, jsonlPath) and its warning; an
\* export that succeeds has written the file.
ExportStep ==
    /\ pc = "export"
    /\ \E err \in StepErrs :
           /\ calls' = Append(calls, Call("Export", "issues.jsonl", err))
           /\ stderr' = IF err # Nil
                        THEN Append(stderr, Warning("export failed", err))
                        ELSE stderr
           /\ jsonl' = (jsonl \/ err = Nil)
    /\ pc' = "mirrorRemote"
    /\ UNCHANGED <<store, beadsDir, exit, runs, dbvars>>

\* Mutant of HasRemoteStep: an error of the remote check is warned about.
HasRemoteStep_WarnOnError(at, push) ==
    /\ pc = at
    /\ \E r \in HasRemoteResults :
           /\ calls' = Append(calls, Call("HasRemote", r.has, r.err))
           /\ stderr' = IF r.err # Nil
                        THEN Append(stderr, Warning("remote check failed", r.err))
                        ELSE stderr
           /\ IF r.err = Nil /\ r.has
              THEN pc' = push /\ exit' = exit
              ELSE pc' = "done" /\ exit' = "ok"
    /\ UNCHANGED <<store, beadsDir, jsonl, runs, dbvars>>

\* if hasRemote, err := store.HasRemote(rootCtx, "origin"); err == nil && hasRemote
\* at position `at`; `push` is the position of the push inside the if.
HasRemoteStep(at, push) ==
    /\ pc = at
    /\ \E r \in HasRemoteResults :
           /\ calls' = Append(calls, Call("HasRemote", r.has, r.err))
           /\ IF r.err = Nil /\ r.has
              THEN pc' = push /\ exit' = exit
              ELSE pc' = "done" /\ exit' = "ok"
    /\ UNCHANGED <<store, beadsDir, stderr, jsonl, runs, dbvars>>

\* Mutant of PushStep: a successful push prints nothing.
PushStep_NoInfo(at) ==
    /\ pc = at
    /\ \E err \in StepErrs :
           /\ calls' = Append(calls, Call("Push", "", err))
           /\ stderr' = IF err # Nil
                        THEN Append(stderr, Warning("Dolt push failed", err))
                        ELSE stderr
    /\ pc' = "done"
    /\ exit' = "ok"
    /\ UNCHANGED <<store, beadsDir, jsonl, runs, dbvars>>

\* Mutant of PushStep: a failed push ends the command with an error.
PushStep_FatalOnError(at) ==
    /\ pc = at
    /\ \E err \in StepErrs :
           /\ calls' = Append(calls, Call("Push", "", err))
           /\ stderr' = IF err # Nil
                        THEN Append(stderr, Warning("Dolt push failed", err))
                        ELSE Append(stderr, PushedLine)
           /\ exit' = IF err # Nil THEN "error" ELSE "ok"
    /\ pc' = "done"
    /\ UNCHANGED <<store, beadsDir, jsonl, runs, dbvars>>

\* store.Push(rootCtx) at position `at`, its warning or its message, and the
\* end of Run.
PushStep(at) ==
    /\ pc = at
    /\ \E err \in StepErrs :
           /\ calls' = Append(calls, Call("Push", "", err))
           /\ stderr' = IF err # Nil
                        THEN Append(stderr, Warning("Dolt push failed", err))
                        ELSE Append(stderr, PushedLine)
    /\ pc' = "done"
    /\ exit' = "ok"
    /\ UNCHANGED <<store, beadsDir, jsonl, runs, dbvars>>

\* The remote check and the push of the dolt-native branch.
NativeRemoteCheck == HasRemoteStep("nativeRemote", "nativePush")
NativePush == PushStep("nativePush")

\* The remote check and the push after the export.
MirrorRemoteCheck == HasRemoteStep("mirrorRemote", "mirrorPush")
MirrorPush == PushStep("mirrorPush")

----------------------------------------------------------------------------

DbInit ==
    /\ tables = {}
    /\ issues = {}
    /\ columns = {}
    /\ ret = NoRet

SyncInit ==
    /\ store = "nil"
    /\ beadsDir = ""
    /\ pc = "idle"
    /\ calls = <<>>
    /\ stderr = <<>>
    /\ jsonl = FALSE
    /\ exit = "none"
    /\ runs = 0

Init == DbInit /\ SyncInit

Next ==
    \/ CreateIssuesTable
    \/ InsertIssue
    \/ CallQueryOrphanedChildren
    \/ CallDetectOrphanedChildren

\* Every table content is reached by inserts alone, so the reads are
\* checked under Spec; the migration and the delete have specifications of
\* their own, each with the operations its claims are about.
Spec == Init /\ [][Next]_vars

MigNext ==
    \/ CreateIssuesTable
    \/ InsertIssue
    \/ CallMigrateWispTypeColumn
    \/ CallDetectOrphanedChildren

MigSpec == Init /\ [][MigNext]_vars

DeleteNext ==
    \/ CreateIssuesTable
    \/ InsertIssue
    \/ DeleteIssue
    \/ CallQueryOrphanedChildren

DeleteSpec == Init /\ [][DeleteNext]_vars

SyncNext ==
    \/ SyncStart
    \/ CommitStep
    \/ ModeBranch
    \/ ExportStep
    \/ NativeRemoteCheck
    \/ NativePush
    \/ MirrorRemoteCheck
    \/ MirrorPush

SyncSpec == Init /\ [][SyncNext]_vars

----------------------------------------------------------------------------
\* What the claims say, stated without the operators of the query.

\* The ID contains the separator.
HasDot(id) == \E i \in 1..Len(id) : id[i] = "."

\* p is the part of id before its first separator.
IsRootPrefix(p, id) ==
    /\ Len(p) < Len(id)
    /\ id[Len(p) + 1] = "."
    /\ \A i \in 1..Len(p) : p[i] = id[i] /\ p[i] # "."

\* p is id with its last ".suffix" removed.
IsImmediateParent(p, id) ==
    /\ Len(p) < Len(id)
    /\ id[Len(p) + 1] = "."
    /\ \A i \in 1..Len(p) : p[i] = id[i]
    /\ \A i \in (Len(p) + 2)..Len(id) : id[i] # "."

\* Some row's ID is the root prefix / the immediate parent of id.
RootExists(id) == \E q \in issues : IsRootPrefix(q.id, id)
ParentExists(id) == \E q \in issues : IsImmediateParent(q.id, id)

\* The number of separators of an ID.
Dots(id) == Cardinality({ i \in 1..Len(id) : id[i] = "." })

\* The rows of a returned sequence.
Returned == { ret.orphans[i] : i \in 1..Len(ret.orphans) }

\* The last operation was a QueryOrphanedChildren that returned no error.
QueryOk == ret.op = "Query" /\ ret.err = Nil

\* a sorts before b: at the first position where they differ a has the
\* smaller code point, or a is a proper prefix of b.
LexLess(a, b) ==
    \/ /\ Len(a) < Len(b)
       /\ \A i \in 1..Len(a) : a[i] = b[i]
    \/ \E k \in 1..Len(a) :
           /\ k <= Len(b)
           /\ \A i \in 1..(k - 1) : a[i] = b[i]
           /\ CharCode(a[k]) < CharCode(b[k])

\* C1: QueryOrphanedChildren returns exactly the rows whose ID has a '.' and
\* whose prefix before the first '.' is no row's ID, each once, with the
\* row's own Title and Status.
C1_ExactOrphans ==
    QueryOk =>
        /\ Returned = { r \in issues : HasDot(r.id) /\ ~RootExists(r.id) }
        /\ Len(ret.orphans) = Cardinality(Returned)

\* C1 witness: a query returned an orphan and left out both a child whose
\* root exists and that root.
C1_Witness ==
    /\ QueryOk
    /\ Len(ret.orphans) >= 1
    /\ \E r \in issues \ Returned : HasDot(r.id)
    /\ \E r \in issues \ Returned : ~HasDot(r.id)

\* C2: a row with two or more separators whose root prefix is a row's ID is
\* never returned, whether or not its direct parent exists.
C2_RootPresentNotReturned ==
    QueryOk =>
        \A r \in issues : Dots(r.id) >= 2 /\ RootExists(r.id) => r \notin Returned

\* C2 witness: P and P.1.1 present, P.1 absent, and the query returned nothing.
C2_Witness ==
    /\ QueryOk
    /\ SelectIds(issues) = { <<"a">>, <<"a", ".", "1", ".", "1">> }
    /\ ret.orphans = <<>>

\* C3 as claimed: every row with a '.' whose immediate parent is no row's ID
\* is returned.
C3_Original ==
    QueryOk =>
        \A r \in issues : HasDot(r.id) /\ ~ParentExists(r.id) => r \in Returned

\* C3 amended: a row with a '.' whose immediate parent is no row's ID is
\* returned exactly when its prefix before the first '.' is no row's ID
\* either (so always, when it has a single '.').
C3_MissingParentReturnedIffRootMissing ==
    QueryOk =>
        \A r \in issues : HasDot(r.id) /\ ~ParentExists(r.id) =>
            /\ (r \in Returned <=> ~RootExists(r.id))
            /\ (Dots(r.id) = 1 => r \in Returned)

\* C3 witness: of two rows whose immediate parents are missing, the query
\* returned the one whose root is missing and not the one whose root exists.
C3_Witness ==
    /\ QueryOk
    /\ \E r \in issues : HasDot(r.id) /\ ~ParentExists(r.id) /\ r \in Returned
    /\ \E r \in issues : HasDot(r.id) /\ ~ParentExists(r.id) /\ r \notin Returned

\* C4: the returned sequence is strictly ascending by ID.
C4_AscendingById ==
    QueryOk =>
        \A i, j \in 1..Len(ret.orphans) :
            i < j => LexLess(ret.orphans[i].id, ret.orphans[j].id)

\* C4 witness: orphans of three different missing parents, returned with a
\* grandchild between two siblings.
C4_Witness ==
    /\ QueryOk
    /\ Len(ret.orphans) = 3
    /\ ret.orphans[1].id = <<"a", ".", "1">>
    /\ ret.orphans[2].id = <<"a", ".", "1", ".", "1">>
    /\ ret.orphans[3].id = <<"a", ".", "2">>

\* A database call made by the last DetectOrphanedChildren failed: the
\* catalog probe, or, the table existing, the query's execution, its
\* iteration, or the scan of a row it returned.
DetectCallFailed ==
    \/ ret.fault = "catalog"
    \/ /\ "issues" \in tables
       /\ \/ ret.fault \in {"exec", "iter"}
          \/ /\ ret.fault = "scan"
             /\ \E r \in issues : HasDot(r.id) /\ ~RootExists(r.id)

\* C5: DetectOrphanedChildren returns an error exactly when the table check
\* or the orphan query failed, whatever the number of orphans.
C5_ErrorIffCallFailed ==
    ret.op = "Detect" => (ret.err # Nil <=> DetectCallFailed)

\* C5 witness: a detection found orphans and returned success.
C5_Witness ==
    /\ ret.op = "Detect"
    /\ Len(ret.orphans) >= 2
    /\ ret.err = Nil

C7_NoTableSilentSuccess ==
    ret.op = "Detect" /\ "issues" \notin tables /\ ret.fault # "catalog" =>
        ret.err = Nil /\ ~ret.queried /\ ret.log = <<>>

\* C7 witness: a detection on a database without the table succeeded while
\* the query would have failed.
C7_Witness ==
    /\ ret.op = "Detect"
    /\ "issues" \notin tables
    /\ ret.fault = "exec"
    /\ ret.err = Nil
    /\ ~ret.queried

\* The i-th call of the invocation exists and is a call of op.
IsCall(i, op) == i \in 1..Len(calls) /\ calls[i].op = op

\* C8: in a finished invocation, whatever a commit returned, the mode is
\* read next and then the export (a mirror mode) or the remote check (native
\* mode) is called; whatever an export returned, the remote check is called
\* next, and the push after it when the check reports a remote.
C8_NoStepFailureStopsLaterSteps ==
    pc = "done" =>
        \A i \in 1..Len(calls) :
            /\ calls[i].op = "Commit" =>
                   /\ IsCall(i + 1, "GetSyncMode")
                   /\ IF calls[i + 1].val = SyncModeDoltNative
                      THEN IsCall(i + 2, "HasRemote")
                      ELSE IsCall(i + 2, "Export")
            /\ calls[i].op = "Export" =>
                   /\ IsCall(i + 1, "HasRemote")
                   /\ (calls[i + 1].val /\ calls[i + 1].err = Nil =>
                           IsCall(i + 2, "Push"))

\* C8 witness: the commit failed, the export failed, and the push was
\* still attempted.
C8_Witness ==
    /\ pc = "done"
    /\ Len(calls) = 5
    /\ calls[1] = Call("Commit", "", ConnErr)
    /\ calls[3] = Call("Export", "issues.jsonl", ConnErr)
    /\ calls[5].op = "Push"

\* C9 as claimed: an invocation with an open store handle attempts the commit.
C9_Original ==
    pc = "done" /\ store = "open" => \E i \in 1..Len(calls) : calls[i].op = "Commit"

\* C9 amended: the invocations that perform no step are those with no open
\* store handle or with no beads directory found; with an open store handle
\* and a beads directory, the commit is the first call made.
C9_CommitUnlessNoStoreOrNoBeadsDir ==
    pc = "done" =>
        /\ (calls = <<>> <=> (store = "nil" \/ beadsDir = ""))
        /\ (store = "open" /\ beadsDir # "" => IsCall(1, "Commit"))

\* C9 witness: an invocation with an open store and a beads directory
\* finished, and its first call was the commit.
C9_Witness ==
    /\ pc = "done"
    /\ store = "open"
    /\ beadsDir = ".beads"
    /\ IsCall(1, "Commit")

\* C10: an invocation with no open store handle makes no call, prints
\* nothing and ends successfully.
C10_NoStoreNoOp ==
    pc = "done" /\ store = "nil" =>
        calls = <<>> /\ stderr = <<>> /\ exit = "ok"

\* C10 witness: a second invocation found no store handle and ended at once.
C10_Witness ==
    /\ pc = "done"
    /\ store = "nil"
    /\ runs = 2
    /\ calls = <<>>
    /\ exit = "ok"

----------------------------------------------------------------------------
\* The sync command, continued.

\* The positions of the calls of op, and whether there is one.
CallsOf(op) == { i \in 1..Len(calls) : calls[i].op = op }
HasCall(op) == CallsOf(op) # {}

\* The mode the invocation read is / is not dolt-native.
ReadNative == \E i \in CallsOf("GetSyncMode") : calls[i].val = SyncModeDoltNative
ReadMirror == \E i \in CallsOf("GetSyncMode") : calls[i].val # SyncModeDoltNative

\* The lines of standard error that say `what`.
LinesOf(what) == { i \in 1..Len(stderr) : stderr[i].what = what }

\* C11: once the mode is read, the export is called exactly when the mode
\* is not dolt-native; in dolt-native mode no export is ever called and the
\* interchange file is not written.
C11_ExportIffNotNative ==
    /\ ReadNative => ~HasCall("Export") /\ ~jsonl
    /\ ReadMirror /\ pc # "export" => HasCall("Export")
    /\ HasCall("Export") \/ jsonl => ReadMirror

\* C11 witness: a dolt-native invocation finished with a push and without
\* an export.
C11_Witness ==
    /\ pc = "done"
    /\ ReadNative
    /\ HasCall("Push")
    /\ ~HasCall("Export")
    /\ ~jsonl

\* C12: in a finished invocation that read the mode, a remote check that
\* reports a remote is followed by exactly one push, which comes after the
\* commit (dolt-native) or after the export (mirror); one that reports no
\* remote is followed by none; a failed push leaves its warning and a
\* successful one the message as the last line printed.
C12_PushOnceWhenRemote ==
    pc = "done" /\ HasCall("GetSyncMode") =>
        \A h \in CallsOf("HasRemote") :
            /\ calls[h].val /\ calls[h].err = Nil =>
                   /\ CallsOf("Push") = {h + 1}
                   /\ (ReadNative => CallsOf("Commit") = {h - 2})
                   /\ (ReadMirror => CallsOf("Export") = {h - 1})
                   /\ Len(stderr) >= 1
                   /\ stderr[Len(stderr)] =
                          IF calls[h + 1].err # Nil
                          THEN Warning("Dolt push failed", calls[h + 1].err)
                          ELSE PushedLine
                   /\ Cardinality(LinesOf("Dolt push failed")
                                  \cup LinesOf("Pushed to Dolt git remote")) = 1
            /\ ~calls[h].val /\ calls[h].err = Nil =>
                   /\ ~HasCall("Push")
                   /\ LinesOf("Dolt push failed") = {}
                   /\ LinesOf("Pushed to Dolt git remote") = {}

\* C12 witness: a mirror invocation pushed once, after its export, and
\* printed the message.
C12_Witness ==
    /\ pc = "done"
    /\ ReadMirror
    /\ CallsOf("Export") = {3}
    /\ CallsOf("Push") = {5}
    /\ calls[5].err = Nil
    /\ stderr[Len(stderr)] = PushedLine

\* C13: a commit that returns nil or "nothing to commit" leaves no commit
\* warning, any other commit error leaves exactly one, carrying the error;
\* in every case the mode is read next.
C13_CommitWarning ==
    IsCall(1, "Commit") =>
        /\ IF calls[1].err = Nil \/ calls[1].err = NothingToCommitErr
           THEN LinesOf("Dolt commit failed") = {}
           ELSE /\ Cardinality(LinesOf("Dolt commit failed")) = 1
                /\ stderr[1] = Warning("Dolt commit failed", calls[1].err)
        /\ (pc # "mode" => IsCall(2, "GetSyncMode"))

\* C13 witness: the commit reported "nothing to commit", nothing was
\* printed for it, and the invocation went on to export.
C13_Witness ==
    /\ pc = "done"
    /\ IsCall(1, "Commit")
    /\ calls[1].err = NothingToCommitErr
    /\ stderr = <<>>
    /\ HasCall("Export")

\* The calls whose failure the command warns about.
FailedSteps ==
    { i \in 1..Len(calls) :
        \/ /\ calls[i].op = "Commit"
           /\ calls[i].err # Nil
           /\ calls[i].err # NothingToCommitErr
        \/ calls[i].op \in {"Export", "Push"} /\ calls[i].err # Nil }

\* C14: no invocation ends with an error and none gets stuck; a finished
\* one ended successfully, with one warning for each failed commit, export
\* or push.
C14_AlwaysSucceeds ==
    /\ exit # "error"
    /\ pc \notin {"idle", "done"} => ENABLED SyncNext
    /\ pc = "done" =>
           /\ exit = "ok"
           /\ Cardinality({ i \in 1..Len(stderr) : stderr[i].level = "Warning" })
                  = Cardinality(FailedSteps)

\* C14 witness: commit, export and push all failed and the command ended
\* successfully.
C14_Witness ==
    /\ pc = "done"
    /\ Cardinality(FailedSteps) = 3
    /\ Len(stderr) = 3
    /\ exit = "ok"

\* The place of each call in the order of the sequence.
StepRank(op) ==
    CASE op = "Commit" -> 1
      [] op = "GetSyncMode" -> 2
      [] op = "Export" -> 3
      [] op = "HasRemote" -> 4
      [] op = "Push" -> 5

\* C18: the calls of an invocation are in the order commit, mode read,
\* export, remote check, push, each at most once; the first call is the
\* commit, and an export is made only in a mirror mode.
C18_FixedOrder ==
    /\ \A i, j \in 1..Len(calls) :
           i < j => StepRank(calls[i].op) < StepRank(calls[j].op)
    /\ calls # <<>> => calls[1].op = "Commit"
    /\ HasCall("Export") => ReadMirror

\* C18 witness: all five calls were made, none failing.
C18_Witness ==
    /\ pc = "done"
    /\ Len(calls) = 5
    /\ \A i \in 1..5 : calls[i].err = Nil
    /\ calls[5].op = "Push"

\* The step appends a call of op to calls.
Calls(op) ==
    /\ Len(calls') = Len(calls) + 1
    /\ calls'[Len(calls')].op = op

\* C20: a push is made only right after a remote check that returned true
\* and no error; a remote check that returned an error prints nothing and
\* ends the invocation as one that returned (false, nil) does.
C20_PushOnlyAfterCleanRemoteCheck ==
    [][/\ Calls("Push") =>
              /\ IsCall(Len(calls), "HasRemote")
              /\ calls[Len(calls)].val
              /\ calls[Len(calls)].err = Nil
       /\ Calls("HasRemote") =>
              LET c == calls'[Len(calls')] IN
              IF c.val /\ c.err = Nil
              THEN pc' \in {"nativePush", "mirrorPush"}
              ELSE /\ pc' = "done"
                   /\ exit' = "ok"
                   /\ stderr' = stderr
                   /\ jsonl' = jsonl]_vars

\* C20 witness: the remote check failed while reporting a remote, no push
\* was made and nothing was printed.
C20_Witness ==
    /\ pc = "done"
    /\ IsCall(Len(calls), "HasRemote")
    /\ calls[Len(calls)].err # Nil
    /\ calls[Len(calls)].val
    /\ stderr = <<>>

----------------------------------------------------------------------------
\* The migrations, continued.

\* C15: on an issues table without the column, an application whose
\* database calls succeed issues the column-add, adds wisp_type and returns
\* success; on a table with the column, an application whose probe answers
\* returns success, issues no DDL and leaves the columns as they are. No
\* application touches the tables or the rows.
C15_WispTypeIdempotent ==
    [][ret'.op = "Migrate" /\ "issues" \in tables =>
          /\ tables' = tables
          /\ issues' = issues
          /\ IF "wisp_type" \notin columns
             THEN ret'.fault = "none" =>
                      /\ ret'.err = Nil
                      /\ ret'.ddl
                      /\ columns' = columns \cup {"wisp_type"}
             ELSE ret'.fault # "catalog" =>
                      /\ ret'.err = Nil
                      /\ ~ret'.ddl
                      /\ columns' = columns]_vars

\* C15 witness: the migration was applied again right after an application,
\* to a table with rows; it issued no DDL and succeeded, and the column is
\* there.
C15_Witness ==
    /\ ret.op = "Migrate"
    /\ ret.again
    /\ ret.err = Nil
    /\ ~ret.ddl
    /\ columns = BaseColumns \cup {"wisp_type"}
    /\ issues # {}

\* What an application of a migration step leaves, whatever was applied
\* before it: the detection leaves everything, the column migration leaves
\* the columns with wisp_type among them.
AppliedCleanly ==
    /\ ret'.err = Nil
    /\ tables' = tables
    /\ issues' = issues
    /\ columns' = IF ret'.op = "Migrate"
                  THEN columns \cup {"wisp_type"}
                  ELSE columns

C17_FailFastOnCheckError ==
    ret.op = "Detect" /\ ret.fault = "catalog" =>
        /\ ret.err # Nil
        /\ Head(ret.err) = "failed to check issues table"
        /\ Tail(ret.err) = ConnErr
        /\ ~ret.queried
        /\ ret.log = <<>>
        /\ ret.orphans = <<>>

\* C17 witness: the check failed on a table that holds orphans, and the
\* detection returned the error without a report.
C17_Witness ==
    /\ ret.op = "Detect"
    /\ ret.fault = "catalog"
    /\ ret.err # Nil
    /\ \E r \in issues : HasDot(r.id) /\ ~RootExists(r.id)

\* The ID begins with p followed by the separator.
BeginsWith(id, p) ==
    /\ Len(id) > Len(p)
    /\ \A i \in 1..Len(p) : id[i] = p[i]
    /\ id[Len(p) + 1] = "."

\* What a QueryOrphanedChildren returns when run on the state the step
\* leaves, its database calls succeeding.
NextQueryReturns ==
    LET q == QueryOrphanedChildren(tables', issues', "none")
    IN  { q.orphans[i] : i \in 1..Len(q.orphans) }

\* C19: a step that deletes a root row P leaves a table on which the query
\* returns every row whose ID begins with 'P.'; a step that inserts a root
\* row P leaves one on which the query returns none of them.
C19_DeleteOrphansReinsertAdopts ==
    [][\A p \in issues \cup issues' : ~HasDot(p.id) =>
           /\ p \in issues /\ issues' = issues \ {p} =>
                  \A c \in issues' : BeginsWith(c.id, p.id) => c \in NextQueryReturns
           /\ p \notin issues /\ issues' = issues \cup {p} =>
                  \A c \in issues' : BeginsWith(c.id, p.id) => c \notin NextQueryReturns]_vars

\* C19 witness: the query, run right after a delete, returned a child and
\* a grandchild of the root that is gone.
C19_Witness ==
    /\ QueryOk
    /\ ret.afterDelete
    /\ <<"a">> \notin SelectIds(issues)
    /\ \E r \in Returned : r.id = <<"a", ".", "1">>
    /\ \E r \in Returned : r.id = <<"a", ".", "1", ".", "1">>

====
